---- MODULE Spec2Model ----
(***************************************************************************)
(* Model of the stock-prediction edge function (src/unnamed/part_000):     *)
(* the Deno.serve request handler, predictLinearRegression, predictLSTM,   *)
(* normalizeData and denormalize.                                          *)
(*                                                                         *)
(* Numbers.  JavaScript numbers are modelled as exact rationals plus NaN.  *)
(* Math.sqrt is kept exact: a value that depends on a standard deviation   *)
(* is a "surd" a + b*sqrt(v) with rational a, b, v.  Floating-point        *)
(* rounding is not modelled.  TLC integers are 32-bit, so every order      *)
(* comparison multiplies through multi-digit naturals (base 10000).        *)
(***************************************************************************)
EXTENDS Integers, Sequences, FiniteSets, TLC

----------------------------------------------------------------------------
(* Multi-digit naturals: little-endian sequences of base-10000 digits.      *)

BigBase == 100 * 100

RECURSIVE BigOf(_)
BigOf(n) == IF n < BigBase THEN <<n>> ELSE <<n % BigBase>> \o BigOf(n \div BigBase)

RECURSIVE BigTrim(_)
BigTrim(x) ==
  IF Len(x) > 1 /\ x[Len(x)] = 0 THEN BigTrim(SubSeq(x, 1, Len(x) - 1)) ELSE x

RECURSIVE BigAddC(_, _, _)
BigAddC(x, y, c) ==
  IF x = <<>> /\ y = <<>>
  THEN (IF c = 0 THEN <<>> ELSE <<c>>)
  ELSE LET a == IF x = <<>> THEN 0 ELSE Head(x)
           b == IF y = <<>> THEN 0 ELSE Head(y)
           s == a + b + c
       IN  <<s % BigBase>> \o
           BigAddC(IF x = <<>> THEN <<>> ELSE Tail(x),
                   IF y = <<>> THEN <<>> ELSE Tail(y), s \div BigBase)

BigAdd(x, y) == BigTrim(BigAddC(x, y, 0))

RECURSIVE BigMulDigit(_, _, _)
BigMulDigit(x, k, c) ==
  IF x = <<>>
  THEN (IF c = 0 THEN <<>> ELSE <<c>>)
  ELSE LET p == Head(x) * k + c
       IN  <<p % BigBase>> \o BigMulDigit(Tail(x), k, p \div BigBase)

RECURSIVE BigMul(_, _)
BigMul(x, y) ==
  IF y = <<>> THEN <<0>>
  ELSE BigAdd(BigTrim(BigMulDigit(x, Head(y), 0) \o <<0>>),
              LET r == BigMul(x, Tail(y)) IN BigTrim(<<0>> \o r))

RECURSIVE BigCmpFrom(_, _, _)
BigCmpFrom(x, y, i) ==
  IF i = 0 THEN 0
  ELSE IF x[i] < y[i] THEN -1
  ELSE IF x[i] > y[i] THEN 1
  ELSE BigCmpFrom(x, y, i - 1)

\* -1, 0, 1 as x < y, x = y, x > y
BigCmp(x, y) ==
  LET a == BigTrim(x)
      b == BigTrim(y)
  IN  IF Len(a) < Len(b) THEN -1
      ELSE IF Len(a) > Len(b) THEN 1
      ELSE BigCmpFrom(a, b, Len(a))

RECURSIVE BigProd(_)
BigProd(ns) == IF ns = <<>> THEN <<1>> ELSE BigMul(BigOf(Head(ns)), BigProd(Tail(ns)))

----------------------------------------------------------------------------
(* Rationals [n, d] in lowest terms with d > 0.                             *)

Abs(x) == IF x < 0 THEN -x ELSE x
Sgn(x) == IF x < 0 THEN -1 ELSE IF x > 0 THEN 1 ELSE 0

RECURSIVE Gcd(_, _)
Gcd(a, b) == IF b = 0 THEN a ELSE Gcd(b, a % b)

Q(n, d) ==
  LET g == Gcd(Abs(n), Abs(d))
  IN  IF d < 0 THEN [n |-> -(n \div g), d |-> (-d) \div g]
               ELSE [n |-> n \div g, d |-> d \div g]

QInt(n) == [n |-> n, d |-> 1]
QZero == QInt(0)
QAdd(x, y) ==
  LET g == Gcd(x.d, y.d)
  IN  Q(x.n * (y.d \div g) + y.n * (x.d \div g), (x.d \div g) * y.d)
QNeg(x) == [n |-> -x.n, d |-> x.d]
QSub(x, y) == QAdd(x, QNeg(y))
QMul(x, y) ==
  LET g1 == Gcd(Abs(x.n), y.d)
      g2 == Gcd(Abs(y.n), x.d)
  IN  IF x.n = 0 \/ y.n = 0 THEN QZero
      ELSE Q((x.n \div g1) * (y.n \div g2), (x.d \div g2) * (y.d \div g1))
\* y # 0
QDiv(x, y) == QMul(x, Q(y.d, y.n))
\* sign of x - y
QCmp(x, y) ==
  IF Sgn(x.n) # Sgn(y.n) THEN (IF Sgn(x.n) < Sgn(y.n) THEN -1 ELSE 1)
  ELSE IF x.n = 0 THEN 0
  ELSE Sgn(x.n) * BigCmp(BigProd(<<Abs(x.n), y.d>>), BigProd(<<Abs(y.n), x.d>>))
QLe(x, y) == QCmp(x, y) <= 0
QLt(x, y) == QCmp(x, y) < 0

RECURSIVE ISqrtIn(_, _, _)
ISqrtIn(n, lo, hi) ==
  IF lo >= hi THEN lo
  ELSE LET mid == (lo + hi + 1) \div 2
       IN  IF mid * mid <= n THEN ISqrtIn(n, mid, hi) ELSE ISqrtIn(n, lo, mid - 1)
\* floor of the square root of a natural (below 2^31)
ISqrt(n) == ISqrtIn(n, 0, IF n < 46340 THEN n ELSE 46340)
IsSquare(n) == ISqrt(n) * ISqrt(n) = n

----------------------------------------------------------------------------
(* JavaScript numbers: k = "nan", k = "inf" (signed by a.n), or the finite  *)
(* value a + b*sqrt(v) (k = "num"); b = 0 and v = 0 for a rational.         *)

NaN == [k |-> "nan", a |-> QZero, b |-> QZero, v |-> QZero]
Inf(s) == [k |-> "inf", a |-> QInt(s), b |-> QZero, v |-> QZero]
Num(q) == [k |-> "num", a |-> q, b |-> QZero, v |-> QZero]
N(n) == Num(QInt(n))
Frac(n, d) == Num(Q(n, d))
Surd(a, b, v) ==
  IF b.n = 0 \/ v.n = 0 THEN Num(a) ELSE [k |-> "num", a |-> a, b |-> b, v |-> v]
IsNaN(x) == x.k = "nan"
IsFiniteNum(x) == x.k = "num"
IsRational(x) == x.k = "num" /\ x.b.n = 0

\* sign of a + b*sqrt(v), v >= 0
SurdSign(a, b, v) ==
  IF b.n = 0 \/ v.n = 0 THEN Sgn(a.n)
  ELSE IF a.n = 0 THEN Sgn(b.n)
  ELSE IF Sgn(a.n) = Sgn(b.n) THEN Sgn(a.n)
  ELSE Sgn(a.n) * BigCmp(BigProd(<<Abs(a.n), Abs(a.n), b.d, b.d, v.d>>),
                         BigProd(<<Abs(b.n), Abs(b.n), v.n, a.d, a.d>>))

\* sign of a number (NaN has none: 2)
JsSign(x) ==
  IF x.k = "nan" THEN 2
  ELSE IF x.k = "inf" THEN Sgn(x.a.n)
  ELSE SurdSign(x.a, x.b, x.v)

RadOf(x, y) == IF x.b.n # 0 THEN x.v ELSE y.v

\* x + y
JsAdd(x, y) ==
  IF x.k = "nan" \/ y.k = "nan" THEN NaN
  ELSE IF x.k = "inf" /\ y.k = "inf"
       THEN (IF x.a.n = y.a.n THEN x ELSE NaN)
  ELSE IF x.k = "inf" THEN x
  ELSE IF y.k = "inf" THEN y
  ELSE Surd(QAdd(x.a, y.a), QAdd(x.b, y.b), RadOf(x, y))

JsNeg(x) ==
  IF x.k = "nan" THEN NaN
  ELSE IF x.k = "inf" THEN Inf(-x.a.n)
  ELSE [k |-> "num", a |-> QNeg(x.a), b |-> QNeg(x.b), v |-> x.v]

\* x - y
JsSub(x, y) == JsAdd(x, JsNeg(y))

\* x * y
JsMul(x, y) ==
  IF x.k = "nan" \/ y.k = "nan" THEN NaN
  ELSE IF x.k = "inf" \/ y.k = "inf"
       THEN (IF JsSign(x) = 0 \/ JsSign(y) = 0 THEN NaN ELSE Inf(JsSign(x) * JsSign(y)))
  ELSE LET v == RadOf(x, y)
       IN  Surd(QAdd(QMul(x.a, y.a), QMul(QMul(x.b, y.b), v)),
                QAdd(QMul(x.a, y.b), QMul(x.b, y.a)), v)

\* x / y, for a rational or non-finite divisor y (the only divisors of the source)
JsDiv(x, y) ==
  IF x.k = "nan" \/ y.k = "nan" THEN NaN
  ELSE IF y.k = "inf" THEN (IF x.k = "inf" THEN NaN ELSE N(0))
  ELSE IF y.a.n = 0
       THEN (IF JsSign(x) = 0 THEN NaN ELSE Inf(JsSign(x)))
  ELSE IF x.k = "inf" THEN Inf(x.a.n * Sgn(y.a.n))
  ELSE Surd(QDiv(x.a, y.a), QDiv(x.b, y.a), x.v)

\* x < y (false when either is NaN)
JsLt(x, y) ==
  /\ x.k # "nan" /\ y.k # "nan"
  /\ IF x.k = "inf" \/ y.k = "inf"
     THEN \/ (x.k = "inf" /\ x.a.n < 0 /\ ~(y.k = "inf" /\ y.a.n < 0))
          \/ (y.k = "inf" /\ y.a.n > 0 /\ ~(x.k = "inf" /\ x.a.n > 0))
     ELSE JsSign(JsSub(x, y)) < 0
JsGt(x, y) == JsLt(y, x)
JsLe(x, y) == x.k # "nan" /\ y.k # "nan" /\ ~JsLt(y, x)
JsGe(x, y) == JsLe(y, x)
\* x === y on numbers (NaN equals nothing)
JsEq(x, y) == JsLe(x, y) /\ JsLe(y, x)

\* Math.max(x, y), Math.min(x, y): NaN if either argument is NaN
MathMax(x, y) == IF x.k = "nan" \/ y.k = "nan" THEN NaN ELSE IF JsLt(x, y) THEN y ELSE x
MathMin(x, y) == IF x.k = "nan" \/ y.k = "nan" THEN NaN ELSE IF JsLt(y, x) THEN y ELSE x

\* Math.sqrt(x) of a rational x
MathSqrt(x) ==
  IF x.k = "nan" THEN NaN
  ELSE IF x.k = "inf" THEN (IF x.a.n > 0 THEN x ELSE NaN)
  ELSE IF x.a.n < 0 THEN NaN
  ELSE IF IsSquare(x.a.n) /\ IsSquare(x.a.d) THEN Frac(ISqrt(x.a.n), ISqrt(x.a.d))
  ELSE Surd(QZero, QInt(1), x.a)

\* Math.pow(x, 2)
MathPow2(x) == JsMul(x, x)

----------------------------------------------------------------------------
(* Dates.  A Date is [y, m, d] (the runtime's zone is UTC, as on the Deno   *)
(* edge runtime, so local getDate/setDate and toISOString agree on the day).*)

IsLeap(y) == (y % 4 = 0 /\ y % 100 # 0) \/ y % 400 = 0
DaysInMonth(y, m) ==
  IF m = 2 THEN (IF IsLeap(y) THEN 28 + 1 ELSE 28)
  ELSE IF m \in {4, 6, 9, 11} THEN 30 ELSE 30 + 1

\* Date.prototype.setDate(day) for day >= 1: days past the month's end roll over
RECURSIVE SetDate(_, _)
SetDate(date, day) ==
  IF day <= DaysInMonth(date.y, date.m) THEN [y |-> date.y, m |-> date.m, d |-> day]
  ELSE SetDate(IF date.m = 12 THEN [y |-> date.y + 1, m |-> 1, d |-> 1]
                              ELSE [y |-> date.y, m |-> date.m + 1, d |-> 1],
               day - DaysInMonth(date.y, date.m))

\* date.toISOString().split('T')[0]: the text YYYY-MM-DD, kept as its three fields
ToISODate(date) == <<date.y, date.m, date.d>>

\* order of two YYYY-MM-DD texts (lexicographic, fields are zero-padded)
IsoLt(s, t) ==
  \/ s[1] < t[1]
  \/ s[1] = t[1] /\ s[2] < t[2]
  \/ s[1] = t[1] /\ s[2] = t[2] /\ s[3] < t[3]

----------------------------------------------------------------------------
(* Array helpers                                                            *)

\* Array.prototype.slice(-k): the last k elements (slice(-0) is the whole array)
SliceLast(arr, k) ==
  IF k <= 0 \/ k >= Len(arr) THEN arr ELSE SubSeq(arr, Len(arr) - k + 1, Len(arr))

Min2(a, b) == IF a < b THEN a ELSE b

\* Folds over arrays are evaluated as balanced trees: in exact arithmetic the
\* result is that of the source's left-to-right loop, and the recursion stays
\* shallow.

RECURSIVE MinRange(_, _, _)
MinRange(data, lo, hi) ==
  IF lo > hi THEN Inf(1)
  ELSE IF lo = hi THEN MathMin(data[lo], Inf(1))
  ELSE LET mid == (lo + hi) \div 2
       IN  MathMin(MinRange(data, lo, mid), MinRange(data, mid + 1, hi))
\* Math.min(...data) (Infinity for no argument)
ArrMin(data) == MinRange(data, 1, Len(data))

RECURSIVE MaxRange(_, _, _)
MaxRange(data, lo, hi) ==
  IF lo > hi THEN Inf(-1)
  ELSE IF lo = hi THEN MathMax(data[lo], Inf(-1))
  ELSE LET mid == (lo + hi) \div 2
       IN  MathMax(MaxRange(data, lo, mid), MaxRange(data, mid + 1, hi))
\* Math.max(...data) (-Infinity for no argument)
ArrMax(data) == MaxRange(data, 1, Len(data))

RECURSIVE SumRange(_, _, _)
SumRange(prices, lo, hi) ==
  IF lo > hi THEN N(0)
  ELSE IF lo = hi THEN JsAdd(N(0), prices[lo])
  ELSE LET mid == (lo + hi) \div 2
       IN  JsAdd(SumRange(prices, lo, mid), SumRange(prices, mid + 1, hi))
\* prices.reduce((sum, price) => sum + price, 0)
Sum(prices) == SumRange(prices, 1, Len(prices))

\* prices.reduce((acc, price) => acc + Math.pow(price - mean, 2), 0)
SumSq(prices, mean) ==
  Sum([i \in 1..Len(prices) |-> MathPow2(JsSub(prices[i], mean))])

----------------------------------------------------------------------------
(* normalizeData / denormalize                                              *)

\* the result of normalizeData for the given min and max (range = max - min)
NormalizeWith(data, min, max) ==
  [normalized |-> [i \in 1..Len(data) |-> JsDiv(JsSub(data[i], min), JsSub(max, min))],
   min |-> min, max |-> max]

normalizeData(data) == NormalizeWith(data, ArrMin(data), ArrMax(data))

denormalize(normalizedVal, min, max) == JsAdd(JsMul(normalizedVal, JsSub(max, min)), min)

----------------------------------------------------------------------------
(* predictLinearRegression                                                  *)

Threw(msg) == [threw |-> TRUE, message |-> msg, predictions |-> <<>>]
Returned(preds) == [threw |-> FALSE, message |-> "", predictions |-> preds]

MinTrendPoints == 10
MaxWindow == 30

\* the sums of the fitting loop over recentPrices (the loop's i is 0-based)
LRSums(recentPrices) ==
  LET len == Len(recentPrices)
  IN  [sumX  |-> Sum([k \in 1..len |-> N(k - 1)]),
       sumY  |-> Sum(recentPrices),
       sumXY |-> Sum([k \in 1..len |-> JsMul(N(k - 1), recentPrices[k])]),
       sumX2 |-> Sum([k \in 1..len |-> N((k - 1) * (k - 1))])]

\* Math.sqrt(variance) of prices around mean (population variance, divisor len)
StdDev(prices, mean, len) == MathSqrt(JsDiv(SumSq(prices, mean), len))

LRSlope(s, len) ==
  JsDiv(JsSub(JsMul(len, s.sumXY), JsMul(s.sumX, s.sumY)),
        JsSub(JsMul(len, s.sumX2), JsMul(s.sumX, s.sumX)))

\* the fit with the intercept left undivided by n
LRFitWithSumIntercept(slope, s, len, recentPrices) ==
  [slope |-> slope,
   intercept |-> JsSub(s.sumY, JsMul(slope, s.sumX)),
   stdDev |-> StdDev(recentPrices, JsDiv(s.sumY, len), len)]

LRFitWith(slope, s, len, recentPrices) ==
  [slope |-> slope,
   intercept |-> JsDiv(JsSub(s.sumY, JsMul(slope, s.sumX)), len),
   stdDev |-> StdDev(recentPrices, JsDiv(s.sumY, len), len)]

LRFitOf(s, len, recentPrices) == LRFitWith(LRSlope(s, len), s, len, recentPrices)

\* slope, intercept and standard deviation of the fitting window
LRFit(recentPrices) == LRFitOf(LRSums(recentPrices), N(Len(recentPrices)), recentPrices)

\* Math.max(lastPrice - maxChange, Math.min(lastPrice + maxChange, price))
ClampAround(lastPrice, maxChange, price) ==
  MathMax(JsSub(lastPrice, maxChange), MathMin(JsAdd(lastPrice, maxChange), price))

\* the trend model without its clamp
LRClampNone(lastPrice, predictedPrice) == predictedPrice

\* the clamp of the trend model: maxChange = lastPrice * 0.15
LRClamp(lastPrice, predictedPrice) ==
  ClampAround(lastPrice, JsMul(lastPrice, Frac(15, 100)), predictedPrice)

\* predictions.push({date, predicted_price, confidence_lower, confidence_upper})
PushedPrediction(predictionDate, clampedPrice, confidenceRange) ==
  [date |-> ToISODate(predictionDate),
   predicted_price |-> MathMax(N(0), clampedPrice),
   confidence_lower |-> MathMax(N(0), JsSub(clampedPrice, confidenceRange)),
   confidence_upper |-> JsAdd(clampedPrice, confidenceRange)]

\* the range with the horizon term subtracted
LRConfidenceRangeNarrowing(stdDev, daysToPredict, i) ==
  JsMul(JsMul(stdDev, JsSub(N(1), JsMul(JsDiv(N(i), daysToPredict), Frac(1, 2)))),
        Frac(196, 100))

\* stdDev * (1 + (i / daysToPredict) * 0.5) * 1.96
LRConfidenceRange(stdDev, daysToPredict, i) ==
  JsMul(JsMul(stdDev, JsAdd(N(1), JsMul(JsDiv(N(i), daysToPredict), Frac(1, 2)))),
        Frac(196, 100))

\* the body of the projection loop for day i
LRPrediction(fit, len, lastPrice, daysToPredict, today, i) ==
  PushedPrediction(SetDate(today, today.d + i),
                   LRClamp(lastPrice, JsAdd(JsMul(fit.slope, N(len + i)), fit.intercept)),
                   LRConfidenceRange(fit.stdDev, daysToPredict, i))

\* how often the body of "for (let i = 1; i <= bound; i++)" runs (never for NaN)
\* the loop with "i < bound" for its test
LoopCountExclusive(bound) ==
  IF bound.k = "nan" THEN 0
  ELSE IF JsLe(bound, N(1)) THEN 0
  ELSE ((bound.a.n + bound.a.d - 1) \div bound.a.d) - 1

LoopCount(bound) ==
  IF bound.k = "nan" THEN 0
  ELSE IF JsLt(bound, N(1)) THEN 0
  ELSE bound.a.n \div bound.a.d

\* for (let i = 1; i <= daysToPredict; i++) predictions.push(...)
LRLoop(fit, len, lastPrice, daysToPredict, today) ==
  [i \in 1..LoopCount(daysToPredict) |->
     LRPrediction(fit, len, lastPrice, daysToPredict, today, i)]

\* the window taken as a tenth of the series
LRWindowTenth(n) == Min2(MaxWindow, n \div 10)

LRWindow(n) == Min2(MaxWindow, n \div 3)

predictLinearRegression(historicalPrices, daysToPredict, today) ==
  LET n == Len(historicalPrices)
  IN  IF n < MinTrendPoints
      THEN Threw("Insufficient historical data for prediction")
      ELSE LET recentPrices == SliceLast(historicalPrices, LRWindow(n))
           IN  Returned(LRLoop(LRFit(recentPrices), Len(recentPrices), historicalPrices[n],
                               daysToPredict, today))

----------------------------------------------------------------------------
(* SimpleLSTM.  The cell's weights are Math.random() draws and its gates    *)
(* are sigmoid/tanh, so the value a trained readout yields is not computed  *)
(* here: it is one of LstmOutputs, picked by the draw (seed).  What the     *)
(* model keeps of the arithmetic is NaN: a NaN input makes every product    *)
(* of matMul, hence h, c, the error, and the outputWeights, NaN.            *)

HasNaN(data) == \E i \in 1..Len(data) : IsNaN(data[i])

\* values a readout can take on normalized data (inside and outside [0, 1])
LstmOutputs == <<Frac(1, 2), Frac(-1, 2), Frac(3, 2)>>

\* new SimpleLSTM(hiddenSize): cell and outputWeights drawn at random
NewSimpleLSTM(seed) == [cell |-> seed, outputWeights |-> "random"]

\* SimpleLSTM.train(data, epochs): updates outputWeights only, once per pair
\* (data[i], data[i+1]); error and h are NaN as soon as a datum is
SimpleLSTMTrain(lstm, data, epochs) ==
  IF epochs <= 0 \/ Len(data) < 2 THEN lstm
  ELSE [lstm EXCEPT !.outputWeights = IF HasNaN(data) THEN "nan" ELSE "trained"]

\* how often the body of "for (let i = 0; i < bound; i++)" runs (never for NaN)
LoopCount0(bound) ==
  IF bound.k = "nan" THEN 0
  ELSE IF JsLe(bound, N(0)) THEN 0
  ELSE (bound.a.n + bound.a.d - 1) \div bound.a.d

\* SimpleLSTM.predict(lastValues, steps): warm-up, then steps autoregressive readouts
SimpleLSTMPredict(lstm, lastValues, steps) ==
  LET tainted == lstm.outputWeights = "nan" \/ HasNaN(lastValues)
  IN  [i \in 1..LoopCount0(steps) |->
         IF tainted THEN NaN ELSE LstmOutputs[((lstm.cell + i) % Len(LstmOutputs)) + 1]]

----------------------------------------------------------------------------
(* predictLSTM                                                              *)

MinLstmPoints == 60
LookbackMax == 60
TrainEpochs == 50
RecentWindow == 30

\* Math.exp(-i / 10) for i = 0..89, to three decimals (in thousandths)
ExpNegTenth == <<
     1000, 905, 819, 741, 670, 607, 549, 497, 449, 407,
     368, 333, 301, 273, 247, 223, 202, 183, 165, 150,
     135, 122, 111, 100, 91, 82, 74, 67, 61, 55,
     50, 45, 41, 37, 33, 30, 27, 25, 22, 20,
     18, 17, 15, 14, 12, 11, 10, 9, 8, 7,
     7, 6, 6, 5, 5, 4, 4, 3, 3, 3,
     2, 2, 2, 2, 2, 2, 1, 1, 1, 1,
     1, 1, 1, 1, 1, 1, 1, 0, 0, 0,
     0, 0, 0, 0, 0, 0, 0, 0, 0, 0 >>

\* 0.7 + (0.3 * Math.exp(-i / 10))
SmoothingFactor(i) == JsAdd(Frac(7, 10), JsMul(Frac(3, 10), Frac(ExpNegTenth[i + 1], 1000)))

\* the clamp of the recurrent model: maxDeviation = lastPrice * 0.20
LSTMClamp(lastPrice, smoothedPrediction) ==
  ClampAround(lastPrice, JsMul(lastPrice, Frac(20, 100)), smoothedPrediction)

\* rawPrediction * smoothingFactor + lastPrice * (1 - smoothingFactor)
Smoothed(rawPrediction, lastPrice, smoothingFactor) ==
  JsAdd(JsMul(rawPrediction, smoothingFactor), JsMul(lastPrice, JsSub(N(1), smoothingFactor)))

\* stdDev * (1 + (i / daysToPredict) * 0.6) * 2.0
LSTMConfidenceRange(stdDev, daysToPredict, i) ==
  JsMul(JsMul(stdDev, JsAdd(N(1), JsMul(JsDiv(N(i), daysToPredict), Frac(6, 10)))), N(2))

\* the body of the post-processing loop for 0-based day i
LSTMPrediction(rawPrediction, stdDev, lastPrice, daysToPredict, today, i) ==
  PushedPrediction(SetDate(today, today.d + i + 1),
                   LSTMClamp(lastPrice, Smoothed(rawPrediction, lastPrice, SmoothingFactor(i))),
                   LSTMConfidenceRange(stdDev, daysToPredict, i))

\* lstm.train(normalized, 50), then lstm.predict(normalized.slice(-lookbackWindow), days)
LSTMNormalizedPredictions(normalized, n, daysToPredict, seed) ==
  SimpleLSTMPredict(SimpleLSTMTrain(NewSimpleLSTM(seed), normalized, TrainEpochs),
                    SliceLast(normalized, Min2(LookbackMax, n)), daysToPredict)

\* normalizedPredictions.map(val => denormalize(val, min, max))
LSTMActualPredictions(normalizedPredictions, min, max) ==
  [j \in 1..Len(normalizedPredictions) |-> denormalize(normalizedPredictions[j], min, max)]

\* the standard deviation of historicalPrices.slice(-30)
RecentStdDev(recentPrices) ==
  StdDev(recentPrices, JsDiv(Sum(recentPrices), N(Len(recentPrices))), N(Len(recentPrices)))

\* for (let i = 0; i < daysToPredict; i++) predictions.push(...)
LSTMLoop(actualPredictions, stdDev, lastPrice, daysToPredict, today) ==
  [j \in 1..LoopCount0(daysToPredict) |->
     LSTMPrediction(actualPredictions[j], stdDev, lastPrice, daysToPredict, today, j - 1)]

\* predictLSTM past its length check, nd being normalizeData(historicalPrices)
LSTMWith(nd, historicalPrices, daysToPredict, today, seed) ==
  LSTMLoop(LSTMActualPredictions(
             LSTMNormalizedPredictions(nd.normalized, Len(historicalPrices), daysToPredict, seed),
             nd.min, nd.max),
           RecentStdDev(SliceLast(historicalPrices, RecentWindow)),
           historicalPrices[Len(historicalPrices)], daysToPredict, today)

predictLSTM(historicalPrices, daysToPredict, today, seed) ==
  IF Len(historicalPrices) < MinLstmPoints
  THEN Threw("LSTM requires at least 60 days of historical data")
  ELSE Returned(LSTMWith(normalizeData(historicalPrices), historicalPrices, daysToPredict,
                         today, seed))

----------------------------------------------------------------------------
(* Query parameters.  A text is a sequence of one-character strings; a      *)
(* parameter is absent (searchParams.get gives null) or present with a text.*)

Digits == <<"0", "1", "2", "3", "4", "5", "6", "7", "8", "9">>
IsDigit(c) == \E i \in 1..Len(Digits) : Digits[i] = c
DigitVal(c) == (CHOOSE i \in 1..Len(Digits) : Digits[i] = c) - 1

RECURSIVE DigitRun(_, _)
\* the length of the run of digits of text from position i on
DigitRun(text, i) == IF i <= Len(text) /\ IsDigit(text[i]) THEN 1 + DigitRun(text, i + 1) ELSE 0

RECURSIVE DigitsValue(_, _, _)
\* the value of the digits text[i..j]
DigitsValue(text, i, j) ==
  IF j < i THEN 0 ELSE DigitsValue(text, i, j - 1) * 10 + DigitVal(text[j])

RECURSIVE SkipSpace(_, _)
SkipSpace(text, i) == IF i <= Len(text) /\ text[i] = " " THEN SkipSpace(text, i + 1) ELSE i

\* parseInt(text): optional blanks and sign, then the longest run of decimal
\* digits; NaN when there is none (what follows the digits is ignored)
ParseInt(text) ==
  LET i == SkipSpace(text, 1)
      neg == i <= Len(text) /\ text[i] = "-"
      j == IF i <= Len(text) /\ text[i] \in {"-", "+"} THEN i + 1 ELSE i
      run == DigitRun(text, j)
  IN  IF run = 0 THEN NaN
      ELSE N((IF neg THEN -1 ELSE 1) * DigitsValue(text, j, j + run - 1))

UpperOf(c) ==
  CASE c = "a" -> "A" [] c = "p" -> "P" [] c = "l" -> "L" [] OTHER -> c
\* String.prototype.toUpperCase
ToUpperCase(text) == [i \in 1..Len(text) |-> UpperOf(text[i])]

Absent == [present |-> FALSE, text |-> <<>>]
Param(text) == [present |-> TRUE, text |-> text]

\* url.searchParams.get('ticker')?.toUpperCase(): undefined when absent
TickerOf(param) ==
  IF param.present THEN [defined |-> TRUE, text |-> ToUpperCase(param.text)]
  ELSE [defined |-> FALSE, text |-> <<>>]
\* !ticker
TickerFalsy(t) == ~t.defined \/ t.text = <<>>

DefaultDaysText == <<"3", "0">>
\* parseInt(url.searchParams.get('days') || '30')
DaysOf(param) ==
  ParseInt(IF param.present /\ param.text # <<>> THEN param.text ELSE DefaultDaysText)

MinDays == 1
MaxDaysAllowed == 90
\* days < 1 || days > 90
DaysOutOfRange(d) == JsLt(d, N(MinDays)) \/ JsGt(d, N(MaxDaysAllowed))

----------------------------------------------------------------------------
(* Responses as the caller reads them (after JSON.stringify)                *)

NoDetails == "(no details)"
NullText == "(null)"
JsonNull == [k |-> "null", a |-> QZero, b |-> QZero, v |-> QZero]
\* JSON.stringify of a number: NaN and the infinities become null
JsonNumber(x) == IF x.k = "num" THEN x ELSE JsonNull
JsonPrediction(p) ==
  [date |-> p.date,
   predicted_price |-> JsonNumber(p.predicted_price),
   confidence_lower |-> JsonNumber(p.confidence_lower),
   confidence_upper |-> JsonNumber(p.confidence_upper)]
JsonPredictions(preds) == [i \in 1..Len(preds) |-> JsonPrediction(preds[i])]

NoResponse == [status |-> 0, body |-> [kind |-> "none"]]
PreflightResponse == [status |-> 200, body |-> [kind |-> "empty"]]
ErrorResponse(status, error, details) ==
  [status |-> status, body |-> [kind |-> "error", error |-> error, details |-> details]]

Disclaimer ==
  "These predictions are for educational purposes only and should not be used for actual trading decisions."

\* the models array: linear_regression first, lstm only when it has predictions
ModelsOf(lrPreds, lstmPreds) ==
  <<[model |-> "linear_regression", predictions |-> JsonPredictions(lrPreds)]>>
  \o (IF Len(lstmPreds) > 0
      THEN <<[model |-> "lstm", predictions |-> JsonPredictions(lstmPreds)]>>
      ELSE <<>>)

SuccessResponse(tickerText, d, lrPreds, lstmPreds, lstmErr) ==
  [status |-> 200,
   body |-> [kind |-> "forecast",
             ticker |-> tickerText,
             prediction_days |-> JsonNumber(d),
             models |-> ModelsOf(lrPreds, lstmPreds),
             lstm_error |-> lstmErr,
             disclaimer |-> Disclaimer]]

InternalError(message) == ErrorResponse(500, "Internal server error", message)

\* the rows handed to supabase.from('predictions').insert
RecordsOf(tickerText, predictionDate, preds, modelVersion) ==
  [i \in 1..Len(preds) |->
     [ticker |-> tickerText,
      prediction_date |-> predictionDate,
      target_date |-> preds[i].date,
      predicted_price |-> preds[i].predicted_price,
      confidence_lower |-> preds[i].confidence_lower,
      confidence_upper |-> preds[i].confidence_upper,
      model_version |-> modelVersion]]

\* parseFloat(d.close) of a numeric close: the number itself
ParseFloat(close) == close
ClosingPricesOf(rows) == [i \in 1..Len(rows) |-> ParseFloat(rows[i].close)]

----------------------------------------------------------------------------
(* Bounds and inputs                                                        *)

\* the small horizons a request asks for, besides the default and the limits
MaxDays == 3
\* how far past each length threshold the fetched series go
ExtraLen == 1
\* how many trailing prices of a directly applied series vary
TailLen == 2
\* the small horizons a directly applied forecaster is given, besides the limit
UnitMaxDays == 3

\* the decimal text of n, 0 <= n <= 99
IntText(n) ==
  IF n < 10 THEN <<Digits[n + 1]>> ELSE <<Digits[(n \div 10) + 1], Digits[(n % 10) + 1]>>

Methods == {"GET", "OPTIONS"}
TickerParams == {Absent, Param(<<>>), Param(<<"a", "a", "p", "l">>)}
DaysParams ==
  {Absent, Param(<<"a", "b", "c">>), Param(<<"2", ".", "5">>)}
  \cup {Param(IntText(k)) : k \in {0} \cup (1..MaxDays) \cup {MaxDaysAllowed, MaxDaysAllowed + 1}}

\* the clock's day when the request is served
Dates == {[y |-> 2025, m |-> 12, d |-> 30], [y |-> 2024, m |-> 2, d |-> 27]}

\* n prices: 100 throughout, the last Len(tail) ones replaced by tail
SeriesOf(n, tail) ==
  [i \in 1..n |-> IF i > n - Len(tail) THEN tail[i - (n - Len(tail))] ELSE N(100)]

RowsOf(prices) == [i \in 1..Len(prices) |-> [close |-> prices[i], date |-> i]]

FetchLimit == 365
HandlerLengths ==
  {0} \cup ((MinTrendPoints - 1)..(MinTrendPoints + ExtraLen))
      \cup ((MinLstmPoints - 1)..(MinLstmPoints + ExtraLen))
HandlerTails == {<<>>, <<N(130), N(100)>>, <<N(100), N(80)>>}
HandlerSeries ==
  {SeriesOf(n, t) : n \in {m \in HandlerLengths : m <= FetchLimit}, t \in {u \in HandlerTails : TRUE}}

\* what the await of the stock_data query yields: a rejection, {error}, or
\* {data} (null or the rows, oldest first, at most 365)
FetchResults ==
  {[kind |-> "reject", isNull |-> TRUE, rows |-> <<>>],
   [kind |-> "error", isNull |-> TRUE, rows |-> <<>>],
   [kind |-> "data", isNull |-> TRUE, rows |-> <<>>]}
  \cup {[kind |-> "data", isNull |-> FALSE, rows |-> RowsOf(p)] : p \in HandlerSeries}

\* what the await of the predictions insert yields
InsertResults == {"ok", "error", "reject"}

\* the Math.random() draws of one SimpleLSTM
Seeds == 0..1

----------------------------------------------------------------------------
(* State                                                                    *)

VARIABLES
  pc,               \* "idle", "fetch" (awaiting the query), "insert" (awaiting the insert), "done"
  request,          \* [method, ticker, days]: the method and the raw query parameters
  ticker,           \* const ticker
  days,             \* const days
  calls,            \* which of "fetch", "lr", "lstm", "insert" the handler has invoked
  historicalData,   \* data of the query's result: null, or the rows
  dbError,          \* error of the query's result: "unset" before the await resolves
  clock,            \* the day read by new Date()
  lrPredictions,
  lstmPredictions,
  lstmError,
  recordsToInsert,
  response,         \* the Response returned
  unit              \* a function applied on its own: [fn, args, result]

vars == <<pc, request, ticker, days, calls, historicalData, dbError, clock, lrPredictions,
          lstmPredictions, lstmError, recordsToInsert, response, unit>>

handlerVars == <<pc, request, ticker, days, calls, historicalData, dbError, clock,
                 lrPredictions, lstmPredictions, lstmError, recordsToInsert, response>>

NoUnit == [fn |-> "none"]
NoData == [isNull |-> TRUE, rows |-> <<>>]
NoRequest == [method |-> "", ticker |-> Absent, days |-> Absent]
NoDate == [y |-> 0, m |-> 0, d |-> 0]

Init ==
  /\ pc = "idle"
  /\ request = NoRequest
  /\ ticker = TickerOf(Absent)
  /\ days = NaN
  /\ calls = {}
  /\ historicalData = NoData
  /\ dbError = "unset"
  /\ clock = NoDate
  /\ lrPredictions = <<>>
  /\ lstmPredictions = <<>>
  /\ lstmError = NullText
  /\ recordsToInsert = <<>>
  /\ response = NoResponse
  /\ unit = NoUnit

----------------------------------------------------------------------------
(* The request handler, one action per stretch between awaits               *)

Respond(r) == pc' = "done" /\ response' = r

\* from the request's arrival to the await of the stock_data query
Receive(method, tickerParam, daysParam) ==
  /\ pc = "idle"
  /\ request' = [method |-> method, ticker |-> tickerParam, days |-> daysParam]
  /\ UNCHANGED <<historicalData, dbError, clock, lrPredictions, lstmPredictions, lstmError,
                 recordsToInsert, unit>>
  /\ IF method = "OPTIONS"
     THEN /\ Respond(PreflightResponse)
          /\ UNCHANGED <<ticker, days, calls>>
     ELSE /\ ticker' = TickerOf(tickerParam)
          /\ days' = DaysOf(daysParam)
          /\ IF TickerFalsy(ticker')
             THEN Respond(ErrorResponse(400, "Ticker symbol is required", NoDetails))
                  /\ UNCHANGED calls
             ELSE IF DaysOutOfRange(days')
             THEN Respond(ErrorResponse(400, "Days must be between 1 and 90", NoDetails))
                  /\ UNCHANGED calls
             ELSE /\ pc' = "fetch"
                  /\ calls' = {"fetch"}
                  /\ UNCHANGED response

\* what the try/catch around predictLSTM leaves in lstmPredictions and lstmError
LstmOutcome(r) ==
  [called |-> TRUE,
   predictions |-> IF r.threw THEN <<>> ELSE r.predictions,
   error |-> IF r.threw THEN r.message ELSE NullText]

\* the try block around predictLSTM; fault: the runtime raises an Error inside it
LstmAttempt(closingPrices, d, today, seed, fault) ==
  IF Len(closingPrices) >= MinLstmPoints
  THEN LstmOutcome(IF fault THEN Threw("Maximum call stack size exceeded")
                   ELSE predictLSTM(closingPrices, d, today, seed))
  ELSE [called |-> FALSE, predictions |-> <<>>,
        error |-> "Insufficient data for LSTM (requires 60+ days)"]

\* the batch without the lstm rows
AllRecordsTrendOnly(tickerText, predictionDate, lrPreds, lstmPreds) ==
  RecordsOf(tickerText, predictionDate, lrPreds, "linear_regression")

\* recordsToInsert: the trend rows, then the lstm rows when there are any
AllRecords(tickerText, predictionDate, lrPreds, lstmPreds) ==
  RecordsOf(tickerText, predictionDate, lrPreds, "linear_regression")
  \o RecordsOf(tickerText, predictionDate, lstmPreds, "lstm")

\* the query failed: the await rejects (outer catch), or yields {error}
FetchFailed(result) ==
  /\ pc = "fetch"
  /\ result.kind # "data"
  /\ IF result.kind = "reject"
     THEN /\ Respond(InternalError("fetch failed"))
          /\ UNCHANGED <<historicalData, dbError>>
     ELSE /\ Respond(ErrorResponse(500, "Failed to fetch historical data", NoDetails))
          /\ historicalData' = NoData
          /\ dbError' = "error"
  /\ UNCHANGED <<request, ticker, days, calls, clock, lrPredictions, lstmPredictions,
                 lstmError, recordsToInsert, unit>>

\* data of a result that carries no error
DataOf(result) == [isNull |-> result.isNull, rows |-> result.rows]

\* the check with its length test left out
InsufficientDataNullOnly(data) == data.isNull

\* !historicalData || historicalData.length < 10
InsufficientData(data) == data.isNull \/ Len(data.rows) < MinTrendPoints

\* the query yields too little data
FetchInsufficient(result) ==
  /\ pc = "fetch"
  /\ result.kind = "data"
  /\ InsufficientData(DataOf(result))
  /\ Respond(ErrorResponse(400,
               "Insufficient historical data. Please fetch stock data first.", NoDetails))
  /\ historicalData' = DataOf(result)
  /\ dbError' = "null"
  /\ UNCHANGED <<request, ticker, days, calls, clock, lrPredictions, lstmPredictions,
                 lstmError, recordsToInsert, unit>>

\* the draws and faults predictLSTM can meet on a series (none when it is not called)
LstmDraws(rows) ==
  IF Len(rows) >= MinLstmPoints
  THEN {[seed |-> sd, fault |-> FALSE] : sd \in Seeds} \cup {[seed |-> 0, fault |-> TRUE]}
  ELSE {[seed |-> 0, fault |-> FALSE]}

\* from the rows to the await of the insert, or to the response when there is
\* nothing to insert
Forecast(result, today, draw) ==
  /\ pc = "fetch"
  /\ result.kind = "data"
  /\ ~InsufficientData(DataOf(result))
  /\ UNCHANGED <<request, ticker, days, unit>>
  /\ \E lr \in {predictLinearRegression(ClosingPricesOf(result.rows), days, today)},
        lstm \in {LstmAttempt(ClosingPricesOf(result.rows), days, today, draw.seed,
                              draw.fault)} :
       /\ historicalData' = DataOf(result)
       /\ dbError' = "null"
       /\ clock' = today
       /\ calls' = calls \cup {"lr"}
                   \cup (IF ~lr.threw /\ lstm.called THEN {"lstm"} ELSE {})
                   \cup (IF ~lr.threw /\ Len(lr.predictions) + Len(lstm.predictions) > 0
                         THEN {"insert"} ELSE {})
       /\ IF lr.threw
          THEN /\ Respond(InternalError(lr.message))
               /\ UNCHANGED <<lrPredictions, lstmPredictions, lstmError, recordsToInsert>>
          ELSE /\ lrPredictions' = lr.predictions
               /\ lstmPredictions' = lstm.predictions
               /\ lstmError' = lstm.error
               /\ recordsToInsert' = AllRecords(ticker.text, ToISODate(today),
                                                lr.predictions, lstm.predictions)
               /\ IF Len(recordsToInsert') > 0
                  THEN pc' = "insert" /\ UNCHANGED response
                  ELSE Respond(SuccessResponse(ticker.text, days, lr.predictions,
                                               lstm.predictions, lstm.error))

\* from the insert's result to the response
InsertDone(result) ==
  /\ pc = "insert"
  /\ UNCHANGED <<request, ticker, days, calls, historicalData, dbError, clock,
                 lrPredictions, lstmPredictions, lstmError, recordsToInsert, unit>>
  /\ IF result = "reject"
     THEN Respond(InternalError("insert failed"))
     ELSE Respond(SuccessResponse(ticker.text, days, lrPredictions, lstmPredictions,
                                  lstmError))

Next ==
  \/ \E method \in Methods, tickerParam \in TickerParams, daysParam \in DaysParams :
       Receive(method, tickerParam, daysParam)
  \/ \E result \in FetchResults : FetchFailed(result)
  \/ \E result \in FetchResults : FetchInsufficient(result)
  \/ \E result \in FetchResults, today \in Dates :
       \E draw \in LstmDraws(result.rows) : Forecast(result, today, draw)
  \/ \E result \in InsertResults : InsertDone(result)

Spec == Init /\ [][Next]_vars

----------------------------------------------------------------------------
(* The three functions applied on their own: the inputs are drawn by        *)
(* UnitInit, and one action per function applies it to them                 *)

\* the prices the varying end of a series is made of
UnitPrices == {N(0), N(100), N(130)}
\* the ends of TailLen prices
UnitTails == [1..TailLen -> UnitPrices]
\* around both length checks, and past three full fitting windows
UnitLengths ==
  {MinTrendPoints - 1, MinTrendPoints, 2 * MinTrendPoints, MinLstmPoints - 1,
   MinLstmPoints, 3 * MaxWindow + 1}
ConstantSeries(n, v) == [i \in 1..n |-> v]
UnitSeries ==
  {SeriesOf(n, t) : n \in UnitLengths, t \in UnitTails}
  \cup {ConstantSeries(n, v) : n \in UnitLengths, v \in UnitPrices}
UnitDays == {N(k) : k \in 1..UnitMaxDays}
\* the series given the longest horizon
LongHorizonSeries ==
  {SeriesOf(n, t) : n \in {MinTrendPoints, MinLstmPoints}, t \in HandlerTails}
  \cup {ConstantSeries(n, v) : n \in {MinTrendPoints, MinLstmPoints}, v \in UnitPrices}
\* n prices on a line that ends at last and rises by step from one to the next
LinearSeries(n, last, step) == [i \in 1..n |-> JsSub(last, JsMul(N(n - i), step))]
LinearSteps == {N(-10), N(-1), N(1), N(10)}
\* the lines through 100 that stay non-negative
LinearSeriesSet ==
  {p \in {LinearSeries(n, N(100), st) : n \in UnitLengths, st \in LinearSteps} :
     JsGe(p[1], N(0))}
\* ninety prices rising evenly from 50 to 140
ScenarioLine == LinearSeries(MaxDaysAllowed, N(140), Frac(90, 89))
\* a series and a horizon: every series with the small horizons, some with the
\* longest one, twenty prices of 100 with five days, and the ninety prices
\* from 50 to 140 with ten days
UnitCases ==
  {[historicalPrices |-> p, daysToPredict |-> d] : p \in UnitSeries, d \in UnitDays}
  \cup {[historicalPrices |-> p, daysToPredict |-> N(MaxDaysAllowed)] :
          p \in LongHorizonSeries}
  \cup {[historicalPrices |-> ConstantSeries(2 * MinTrendPoints, N(100)),
          daysToPredict |-> N(5)]}
  \cup {[historicalPrices |-> p, daysToPredict |-> d] : p \in LinearSeriesSet, d \in UnitDays}
  \cup {[historicalPrices |-> LinearSeries(MinTrendPoints, N(100), st),
          daysToPredict |-> N(MaxDaysAllowed)] : st \in {N(-1), N(1)}}
  \cup {[historicalPrices |-> ScenarioLine, daysToPredict |-> N(10)]}

UnitInit ==
  /\ Init!1 /\ Init!2 /\ Init!3 /\ Init!4 /\ Init!5 /\ Init!6 /\ Init!7
  /\ Init!8 /\ Init!9 /\ Init!10 /\ Init!11 /\ Init!12 /\ Init!13
  /\ unit \in {[fn |-> "input", historicalPrices |-> c.historicalPrices,
                daysToPredict |-> c.daysToPredict, today |-> t, seed |-> sd] :
                 c \in UnitCases, t \in Dates, sd \in Seeds}

Applied(fn, result) ==
  [fn |-> fn, historicalPrices |-> unit.historicalPrices,
   daysToPredict |-> unit.daysToPredict, today |-> unit.today, seed |-> unit.seed,
   result |-> result]

CallLinearRegression ==
  /\ unit.fn = "input"
  /\ unit' = Applied("predictLinearRegression",
                     predictLinearRegression(unit.historicalPrices, unit.daysToPredict,
                                             unit.today))
  /\ UNCHANGED handlerVars

CallLSTM ==
  /\ unit.fn = "input"
  /\ unit' = Applied("predictLSTM",
                     predictLSTM(unit.historicalPrices, unit.daysToPredict, unit.today,
                                 unit.seed))
  /\ UNCHANGED handlerVars

CallNormalizeData ==
  /\ unit.fn = "input"
  /\ unit' = Applied("normalizeData", normalizeData(unit.historicalPrices))
  /\ UNCHANGED handlerVars

UnitNext == CallLinearRegression \/ CallLSTM \/ CallNormalizeData

UnitSpec == UnitInit /\ [][UnitNext]_vars

----------------------------------------------------------------------------
(* SimpleLSTM step by step: one action per loop iteration of train and      *)
(* predict.  Weights are kept symbolically: a gate matrix is its name and   *)
(* the draw that initialised it; outputWeights is its initial draw and the  *)
(* sequence of updates added to it; a hidden state is the sequence of       *)
(* inputs the cell has been fed since h and c were zeroed.                  *)

\* the longest data, the most epochs and the most steps of a stepped run
MaxData == 3
MaxEpochs == 2
MaxSteps == 2

LearningRate == Frac(1, 1000)

\* initWeights: a matrix of Math.random() draws
InitWeights(name, seed) == [matrix |-> name, draw |-> seed, adjusted |-> 0]
\* new SimpleLSTMCell(1, hiddenSize)
NewCell(seed) ==
  [Wf |-> InitWeights("Wf", seed), Wi |-> InitWeights("Wi", seed),
   Wc |-> InitWeights("Wc", seed), Wo |-> InitWeights("Wo", seed)]
\* new SimpleLSTM(hiddenSize), with its weights spelled out
NewLstm(seed) == [cell |-> NewCell(seed), outputWeights |-> [draw |-> seed, updates |-> <<>>]]

Datum(x) == [kind |-> "datum", x |-> x]
\* cell.forward(x, h, c): reads Wf, Wi, Wc, Wo; returns the new h and c
Forward(cell, x, h) == Append(h, x)
\* h.reduce((sum, val, idx) => sum + val * outputWeights[idx], 0)
Readout(h, outputWeights) == [kind |-> "predicted", h |-> h, outputWeights |-> outputWeights]

\* a training step that also adjusts the forget gate
TrainPairAdjustingGate(lstm, x, target, h) ==
  [cell |-> [lstm.cell EXCEPT !.Wf.adjusted = @ + 1],
   outputWeights |->
     [lstm.outputWeights EXCEPT
        !.updates = Append(@, [rate |-> LearningRate, x |-> x, target |-> target, h |-> h])]]

\* outputWeights[j] += learningRate * error * h[j] for every j, where
\* error = data[i + 1] - predicted
TrainPair(lstm, x, target, h) ==
  [lstm EXCEPT
     !.outputWeights.updates =
        Append(@, [rate |-> LearningRate, x |-> x, target |-> target, h |-> h])]

\* the data, epochs and steps a stepped run is given
StepData == UNION {[1..n -> {Datum(0), Datum(1)}] : n \in 0..MaxData}
StepRuns ==
  {[data |-> d, epochs |-> e, steps |-> st, seed |-> sd] :
     d \in StepData, e \in 0..MaxEpochs, st \in 0..MaxSteps, sd \in Seeds}

\* after new SimpleLSTM(...), before train is called
LstmInit ==
  /\ Init!1 /\ Init!2 /\ Init!3 /\ Init!4 /\ Init!5 /\ Init!6 /\ Init!7
  /\ Init!8 /\ Init!9 /\ Init!10 /\ Init!11 /\ Init!12 /\ Init!13
  /\ unit \in {[fn |-> "SimpleLSTM", at |-> "constructed", run |-> r,
                lstm |-> NewLstm(r.seed), epoch |-> 0, i |-> 0, h |-> <<>>,
                fed |-> 0, lastInput |-> Datum(0), predictions |-> <<>>] :
                 r \in StepRuns}

\* train is called: the epoch loop starts
TrainCall ==
  /\ unit.fn = "SimpleLSTM" /\ unit.at = "constructed"
  /\ unit' = [unit EXCEPT !.at = "train", !.epoch = 0, !.i = 0, !.h = <<>>]
  /\ UNCHANGED handlerVars

\* one iteration of the inner loop of train
TrainStep ==
  /\ unit.fn = "SimpleLSTM" /\ unit.at = "train"
  /\ unit.epoch < unit.run.epochs
  /\ unit.i < Len(unit.run.data) - 1
  /\ \E h \in {Forward(unit.lstm.cell, unit.run.data[unit.i + 1], unit.h)} :
       unit' = [unit EXCEPT
                  !.h = h,
                  !.lstm = TrainPair(unit.lstm, unit.run.data[unit.i + 1],
                                     unit.run.data[unit.i + 2], h),
                  !.i = @ + 1]
  /\ UNCHANGED handlerVars

\* the inner loop ends: the next epoch starts with h and c zeroed
TrainNextEpoch ==
  /\ unit.fn = "SimpleLSTM" /\ unit.at = "train"
  /\ unit.epoch < unit.run.epochs
  /\ ~(unit.i < Len(unit.run.data) - 1)
  /\ unit' = [unit EXCEPT !.epoch = @ + 1, !.i = 0, !.h = <<>>]
  /\ UNCHANGED handlerVars

\* the epoch loop ends: train returns
TrainReturn ==
  /\ unit.fn = "SimpleLSTM" /\ unit.at = "train"
  /\ ~(unit.epoch < unit.run.epochs)
  /\ unit' = [unit EXCEPT !.at = "trained"]
  /\ UNCHANGED handlerVars

\* predict(lastValues, steps) is called on the data
PredictCall ==
  /\ unit.fn = "SimpleLSTM" /\ unit.at = "trained"
  /\ unit' = [unit EXCEPT !.at = "warmup", !.h = <<>>, !.fed = 0, !.predictions = <<>>]
  /\ UNCHANGED handlerVars

\* one iteration of "for (const val of lastValues)"
PredictFeed ==
  /\ unit.fn = "SimpleLSTM" /\ unit.at = "warmup"
  /\ unit.fed < Len(unit.run.data)
  /\ unit' = [unit EXCEPT
                !.h = Forward(unit.lstm.cell, unit.run.data[unit.fed + 1], @),
                !.fed = @ + 1]
  /\ UNCHANGED handlerVars

\* lastInput = lastValues[lastValues.length - 1] (undefined for no values)
PredictLastInput ==
  /\ unit.fn = "SimpleLSTM" /\ unit.at = "warmup"
  /\ ~(unit.fed < Len(unit.run.data))
  /\ unit' = [unit EXCEPT
                !.at = "predict", !.i = 0,
                !.lastInput = IF Len(unit.run.data) = 0 THEN [kind |-> "undefined"]
                              ELSE unit.run.data[Len(unit.run.data)]]
  /\ UNCHANGED handlerVars

\* one iteration of "for (let i = 0; i < steps; i++)"
PredictStep ==
  /\ unit.fn = "SimpleLSTM" /\ unit.at = "predict"
  /\ unit.i < unit.run.steps
  /\ \E h \in {Forward(unit.lstm.cell, [kind |-> unit.lastInput.kind], unit.h)} :
       \E predicted \in {Readout(h, unit.lstm.outputWeights)} :
         unit' = [unit EXCEPT
                    !.h = h,
                    !.predictions = Append(@, predicted),
                    !.lastInput = predicted,
                    !.i = @ + 1]
  /\ UNCHANGED handlerVars

\* predict returns
PredictReturn ==
  /\ unit.fn = "SimpleLSTM" /\ unit.at = "predict"
  /\ ~(unit.i < unit.run.steps)
  /\ unit' = [unit EXCEPT !.at = "predicted"]
  /\ UNCHANGED handlerVars

LstmNext ==
  \/ TrainCall \/ TrainStep \/ TrainNextEpoch \/ TrainReturn
  \/ PredictCall \/ PredictFeed \/ PredictLastInput \/ PredictStep \/ PredictReturn

LstmSpec == LstmInit /\ [][LstmNext]_vars

----------------------------------------------------------------------------
(* What the interface promises, stated over the handler's state             *)

\* a ticker parameter that is present and not empty
TickerGiven(param) == param.present /\ param.text # <<>>
\* a days parameter that is left out (30 by default) or is the decimal text of
\* an integer in 1..90
DaysGiven(param) ==
  ~param.present \/ param.text = <<>> \/ param.text \in {IntText(k) : k \in 1..90}
ValidRequest ==
  request.method = "GET" /\ TickerGiven(request.ticker) /\ DaysGiven(request.days)
InvalidRequest ==
  request.method = "GET" /\ ~(TickerGiven(request.ticker) /\ DaysGiven(request.days))

\* the query resolved without an error
SeriesFetched == dbError = "null"
SeriesLength == IF historicalData.isNull THEN 0 ELSE Len(historicalData.rows)
\* the trend forecaster ran on the fetched series and returned
TrendSucceeded == SeriesFetched /\ SeriesLength >= 10 /\ "lr" \in calls
IsForecast(r) == r.status = 200 /\ r.body.kind = "forecast"
ModelNames(r) == [i \in 1..Len(r.body.models) |-> r.body.models[i].model]

\* C1: a request whose ticker is missing or empty, or whose days parameter is
\* not an integer in 1..90 (0, 91 and text that is no number included), is
\* answered 400 with an invalid-parameter error, and nothing else is done: no
\* fetch, no forecaster, nothing handed to the predictions table.
C1_InvalidParametersRejected ==
  InvalidRequest =>
    /\ pc = "done"
    /\ response.status = 400
    /\ response.body.kind = "error"
    /\ response.body.error \in {"Ticker symbol is required", "Days must be between 1 and 90"}
    /\ calls = {}
    /\ recordsToInsert = <<>>

\* C2: a valid request whose fetched series is absent or has fewer than 10
\* points is answered 400 with the insufficient-data error; no forecaster is
\* invoked, no prediction is returned or handed to the predictions table; and
\* predictLinearRegression throws on such a series.
C2_InsufficientData ==
  (ValidRequest /\ SeriesFetched /\ SeriesLength < 10) =>
    /\ pc = "done"
    /\ response = ErrorResponse(400,
                    "Insufficient historical data. Please fetch stock data first.",
                    NoDetails)
    /\ calls = {"fetch"}
    /\ lrPredictions = <<>> /\ lstmPredictions = <<>> /\ recordsToInsert = <<>>
    /\ \A today \in Dates :
         LET r == predictLinearRegression(ClosingPricesOf(historicalData.rows), days, today)
         IN  r.threw /\ r.predictions = <<>>

\* a valid request, nine rows fetched, answered
C2_Witness ==
  /\ ValidRequest /\ SeriesFetched /\ ~historicalData.isNull
  /\ Len(historicalData.rows) = 9
  /\ pc = "done" /\ response.status = 400

\* C3: a valid request whose series has 10..59 points ends in a success result
\* with exactly one model entry, linear_regression, and a non-null lstm_error;
\* predictLSTM is never invoked.
C3_TrendOnly ==
  (ValidRequest /\ SeriesFetched /\ SeriesLength \in 10..59) =>
    /\ "lstm" \notin calls
    /\ pc = "done" =>
         /\ IsForecast(response)
         /\ ModelNames(response) = <<"linear_regression">>
         /\ response.body.lstm_error # NullText

\* C4: a valid request whose series has 60 or more points and whose recurrent
\* forecaster did not fail ends in a success result with exactly two entries,
\* linear_regression then lstm; and in every success result linear_regression
\* is first and lstm is there only if predictLSTM produced output.
C4_BothModelsInOrder ==
  /\ (ValidRequest /\ pc = "done" /\ TrendSucceeded /\ SeriesLength >= 60
        /\ "lstm" \in calls /\ lstmError = NullText) =>
       (IsForecast(response) /\ ModelNames(response) = <<"linear_regression", "lstm">>)
  /\ (pc = "done" /\ IsForecast(response)) =>
       /\ ModelNames(response) \in {<<"linear_regression">>, <<"linear_regression", "lstm">>}
       /\ Len(response.body.models) = 2 => Len(lstmPredictions) > 0

\* C5: once the trend forecaster has succeeded, a failure of the recurrent one
\* (too few points, or any exception while it runs) leaves the request a
\* success: the whole trend forecast, no lstm entry, the failure as a
\* non-null lstm_error string; never an error response.
C5_RecurrentFailureIsolated ==
  (pc = "done" /\ TrendSucceeded /\ lstmError # NullText) =>
    /\ IsForecast(response)
    /\ response.body.models =
         <<[model |-> "linear_regression", predictions |-> JsonPredictions(lrPredictions)]>>
    /\ response.body.lstm_error = lstmError

\* C6: once validation, the fetch and the trend forecaster have succeeded, the
\* caller gets the success response with the forecasts, whether the insert
\* into predictions succeeds, returns an error or throws.
C6_PersistenceNeverMasks ==
  (pc = "done" /\ TrendSucceeded) =>
    /\ response.status = 200
    /\ response.body.kind = "forecast"
    /\ response.body.models[1].predictions = JsonPredictions(lrPredictions)

----------------------------------------------------------------------------
(* What the forecasters promise, stated over one application                *)

NonNegative(prices) == \A i \in 1..Len(prices) : JsGe(prices[i], N(0))
IsConstant(prices) == \A i \in 1..Len(prices) : prices[i] = prices[1]
DaysIn1to90(d) == \E k \in 1..90 : d = N(k)

\* the day's number in the proleptic Gregorian calendar
DaysBeforeMonth == <<0, 31, 59, 90, 120, 151, 181, 212, 243, 273, 304, 334>>
DayNumber(y, m, d) ==
  365 * (y - 1) + ((y - 1) \div 4) - ((y - 1) \div 100) + ((y - 1) \div 400)
  + DaysBeforeMonth[m]
  + (IF m > 2 /\ ((y % 4 = 0 /\ y % 100 # 0) \/ y % 400 = 0) THEN 1 ELSE 0)
  + d

\* |price - last| <= fraction * last
Within(price, last, fraction) ==
  /\ JsLe(JsSub(price, last), JsMul(fraction, last))
  /\ JsLe(JsSub(last, price), JsMul(fraction, last))

AppliedTrend == unit.fn = "predictLinearRegression"
AppliedRecurrent == unit.fn = "predictLSTM"
AppliedNormalize == unit.fn = "normalizeData"
LastHistorical == unit.historicalPrices[Len(unit.historicalPrices)]

\* C7: on non-negative prices, 10 or more of them, and days in 1..90,
\* predictLinearRegression returns exactly days predictions, the i-th dated
\* today + i calendar days (so strictly increasing), each with
\* predicted_price >= 0 and confidence_lower <= predicted_price <= confidence_upper.
C7_TrendForecastShape ==
  (AppliedTrend /\ Len(unit.historicalPrices) >= 10 /\ NonNegative(unit.historicalPrices)
     /\ DaysIn1to90(unit.daysToPredict)) =>
    LET preds == unit.result.predictions
    IN  /\ ~unit.result.threw
        /\ N(Len(preds)) = unit.daysToPredict
        /\ \A i \in 1..Len(preds) :
             /\ DayNumber(preds[i].date[1], preds[i].date[2], preds[i].date[3])
                  = DayNumber(unit.today.y, unit.today.m, unit.today.d) + i
             /\ i > 1 => IsoLt(preds[i - 1].date, preds[i].date)
             /\ JsGe(preds[i].predicted_price, N(0))
             /\ JsLe(preds[i].confidence_lower, preds[i].predicted_price)
             /\ JsLe(preds[i].predicted_price, preds[i].confidence_upper)

\* three predictions that run into the next month, one with its price strictly
\* inside its interval and one with its lower bound held at 0
C7_Witness ==
  /\ AppliedTrend /\ Len(unit.historicalPrices) >= 10 /\ ~unit.result.threw
  /\ Len(unit.result.predictions) = 3
  /\ unit.result.predictions[3].date[2] # unit.today.m
  /\ \E i \in 1..3 :
       /\ JsLt(unit.result.predictions[i].confidence_lower,
               unit.result.predictions[i].predicted_price)
       /\ JsLt(unit.result.predictions[i].predicted_price,
               unit.result.predictions[i].confidence_upper)
  /\ \E i \in 1..3 :
       /\ JsEq(unit.result.predictions[i].confidence_lower, N(0))
       /\ JsGt(unit.result.predictions[i].predicted_price, N(0))

\* C8: every predicted_price of predictLinearRegression is within 15% of the
\* last historical price, and every predicted_price of predictLSTM within 20%
\* of it, on every forecast day.
C8_BoundedDeviation ==
  /\ (AppliedTrend /\ ~unit.result.threw) =>
       \A i \in 1..Len(unit.result.predictions) :
         Within(unit.result.predictions[i].predicted_price, LastHistorical, Frac(15, 100))
  /\ (AppliedRecurrent /\ ~unit.result.threw) =>
       \A i \in 1..Len(unit.result.predictions) :
         Within(unit.result.predictions[i].predicted_price, LastHistorical, Frac(20, 100))

\* C9: on a constant series normalizeData yields 0.5 for every point, no NaN;
\* and predictLSTM on a constant series of 60 or more points returns without
\* throwing, every number of its predictions well defined.
C9_ConstantSeriesFallback ==
  IsConstant(unit.historicalPrices) =>
    /\ AppliedNormalize =>
         \A i \in 1..Len(unit.result.normalized) :
           JsEq(unit.result.normalized[i], Frac(1, 2))
    /\ (AppliedRecurrent /\ Len(unit.historicalPrices) >= 60) =>
         /\ ~unit.result.threw
         /\ \A i \in 1..Len(unit.result.predictions) :
              /\ IsFiniteNum(unit.result.predictions[i].predicted_price)
              /\ IsFiniteNum(unit.result.predictions[i].confidence_lower)
              /\ IsFiniteNum(unit.result.predictions[i].confidence_upper)

\* C10: on a series of 10 or more prices all equal to v >= 0, and days in
\* 1..90, predictLinearRegression returns, and every prediction has
\* predicted_price = confidence_lower = confidence_upper = v.
C10_ConstantSeriesTrend ==
  (AppliedTrend /\ Len(unit.historicalPrices) >= 10 /\ IsConstant(unit.historicalPrices)
     /\ NonNegative(unit.historicalPrices) /\ DaysIn1to90(unit.daysToPredict)) =>
    /\ ~unit.result.threw
    /\ N(Len(unit.result.predictions)) = unit.daysToPredict
    /\ \A i \in 1..Len(unit.result.predictions) :
         /\ JsEq(unit.result.predictions[i].predicted_price, LastHistorical)
         /\ JsEq(unit.result.predictions[i].confidence_lower, LastHistorical)
         /\ JsEq(unit.result.predictions[i].confidence_upper, LastHistorical)

\* twenty prices of 100 and five days: five predictions
C10_Witness ==
  /\ AppliedTrend
  /\ unit.historicalPrices = ConstantSeries(20, N(100))
  /\ unit.daysToPredict = N(5)
  /\ ~unit.result.threw
  /\ Len(unit.result.predictions) = 5

\* the step of a series whose prices lie on one line
StepOf(prices) == JsSub(prices[2], prices[1])
IsLinear(prices) ==
  \A i \in 1..(Len(prices) - 1) : JsEq(JsSub(prices[i + 1], prices[i]), StepOf(prices))
\* the window the trend forecaster fits on
FitWindow(prices) == SliceLast(prices, LRWindow(Len(prices)))
\* value held to within 15% of last
Held15(last, value) ==
  IF Within(value, last, Frac(15, 100)) THEN value
  ELSE IF JsGt(value, last) THEN JsMul(last, Frac(115, 100))
  ELSE JsMul(last, Frac(85, 100))
LinearTrendCase ==
  /\ AppliedTrend /\ Len(unit.historicalPrices) >= 10
  /\ NonNegative(unit.historicalPrices) /\ IsLinear(unit.historicalPrices)
  /\ DaysIn1to90(unit.daysToPredict)

\* C11 as stated: on a series of 10 or more prices on a line of step s, the
\* fitted slope is s and the prediction for day i is lastPrice + i*s when that
\* is within 15% of lastPrice, and the clamp boundary otherwise.
C11_ContinuesLineByDays ==
  LinearTrendCase =>
    /\ JsEq(LRFit(FitWindow(unit.historicalPrices)).slope, StepOf(unit.historicalPrices))
    /\ \A i \in 1..Len(unit.result.predictions) :
         JsEq(unit.result.predictions[i].predicted_price,
              Held15(LastHistorical,
                     JsAdd(LastHistorical, JsMul(N(i), StepOf(unit.historicalPrices)))))

\* C11 amended: on a series of 10 or more prices on a line of step s, the
\* fitted slope is s and the prediction for day i is the line's value at index
\* window + i, which is lastPrice + (i + 1)*s, when that is within 15% of
\* lastPrice, and the clamp boundary (lastPrice*1.15 or lastPrice*0.85) otherwise.
C11_ContinuesLineFromWindow ==
  LinearTrendCase =>
    /\ ~unit.result.threw
    /\ JsEq(LRFit(FitWindow(unit.historicalPrices)).slope, StepOf(unit.historicalPrices))
    /\ \A i \in 1..Len(unit.result.predictions) :
         JsEq(unit.result.predictions[i].predicted_price,
              Held15(LastHistorical,
                     JsAdd(LastHistorical, JsMul(N(i + 1), StepOf(unit.historicalPrices)))))

\* the ninety prices from 50 to 140 with ten days: ten predictions, the first
\* two steps past 140
C11_Witness ==
  /\ LinearTrendCase
  /\ unit.historicalPrices = ScenarioLine
  /\ unit.daysToPredict = N(10)
  /\ Len(unit.result.predictions) = 10
  /\ JsEq(unit.result.predictions[1].predicted_price, JsAdd(N(140), Frac(180, 89)))

\* the standard deviation of the window the trend forecaster fits on
FitStdDev == LRFit(FitWindow(unit.historicalPrices)).stdDev
\* confidence_upper - predicted_price of the i-th prediction
HalfWidth(i) ==
  JsSub(unit.result.predictions[i].confidence_upper,
        unit.result.predictions[i].predicted_price)
WideningCase ==
  /\ AppliedTrend /\ Len(unit.historicalPrices) >= 10
  /\ NonNegative(unit.historicalPrices) /\ DaysIn1to90(unit.daysToPredict)
  /\ JsGt(FitStdDev, N(0))

\* C12: in one trend forecast with standard deviation > 0, the half-width of
\* day i is stdDev*(1 + (i/d)*0.5)*1.96, no day's is smaller than that of the
\* day before (hence of any earlier day), and the last day's is 1.5*1.96*stdDev.
C12_MonotonicWidening ==
  WideningCase =>
    LET stdDev == FitStdDev
        d == Len(unit.result.predictions)
    IN  /\ ~unit.result.threw
        /\ \A i \in 1..d :
             /\ JsEq(HalfWidth(i),
                     JsMul(JsMul(stdDev,
                                 JsAdd(N(1), JsMul(JsDiv(N(i), unit.daysToPredict),
                                                   Frac(1, 2)))),
                           Frac(196, 100)))
             /\ i > 1 => JsLe(HalfWidth(i - 1), HalfWidth(i))
        /\ d > 0 => JsEq(HalfWidth(d), JsMul(JsMul(Frac(3, 2), Frac(196, 100)), stdDev))

\* three predictions on a window that varies, the third wider than the first
C12_Witness ==
  /\ WideningCase /\ ~unit.result.threw
  /\ Len(unit.result.predictions) = 3
  /\ JsLt(HalfWidth(1), HalfWidth(3))

\* the error reasons of the two kinds of failure
ClientErrors ==
  {"Ticker symbol is required", "Days must be between 1 and 90",
   "Insufficient historical data. Please fetch stock data first."}
ServerErrors == {"Failed to fetch historical data", "Internal server error"}

\* C13: an error response carries a reason and the status of the fixed
\* mapping: 400 for a missing ticker, days out of range or insufficient data,
\* 500 for any unexpected failure; and the body of a 500 is generic, with
\* nothing of the failure's cause in it.
C13_ErrorMapping ==
  (pc = "done" /\ response.body.kind = "error") =>
    /\ response.status \in {400, 500}
    /\ response.status = 400 => response.body.error \in ClientErrors
    /\ response.status = 500 =>
         /\ response.body.error \in ServerErrors
         /\ response.body.details = NoDetails
    /\ (~TickerGiven(request.ticker) \/ (SeriesFetched /\ SeriesLength < 10)) =>
         response.status = 400
    /\ dbError = "error" => response.status = 500

\* what a record of the batch says of its prediction, as JSON carries it
RecordView(rec) ==
  [model |-> rec.model_version, date |-> rec.target_date,
   predicted_price |-> JsonNumber(rec.predicted_price),
   confidence_lower |-> JsonNumber(rec.confidence_lower),
   confidence_upper |-> JsonNumber(rec.confidence_upper)]
\* the same of the predictions of one model entry of a response
EntryView(entry) ==
  [i \in 1..Len(entry.predictions) |->
     [model |-> entry.model, date |-> entry.predictions[i].date,
      predicted_price |-> entry.predictions[i].predicted_price,
      confidence_lower |-> entry.predictions[i].confidence_lower,
      confidence_upper |-> entry.predictions[i].confidence_upper]]
ResponseView(r) ==
  EntryView(r.body.models[1])
  \o (IF Len(r.body.models) > 1 THEN EntryView(r.body.models[2]) ELSE <<>>)
\* the batch holds one record per prediction of the response, model by model
MirrorsResponse ==
  /\ [i \in 1..Len(recordsToInsert) |-> RecordView(recordsToInsert[i])] = ResponseView(response)
  /\ \A i \in 1..Len(recordsToInsert) : recordsToInsert[i].ticker = response.body.ticker

\* the step that produces the response
C16_Step ==
  (pc # "done" /\ pc' = "done") =>
    /\ IsForecast(response') =>
         /\ MirrorsResponse'
         /\ Len(recordsToInsert') > 0 =>
              (pc = "insert" /\ "insert" \in calls /\ recordsToInsert' = recordsToInsert)
         /\ ValidRequest => pc = "insert"
    /\ (response'.body.kind = "error" /\ pc # "insert") =>
         ("insert" \notin calls' /\ recordsToInsert' = <<>>)

\* C16: when a request ends in a success response, the batch was handed to
\* the insert before the response was produced and holds exactly one record
\* per prediction of each model of the response, with the same target date,
\* price and bounds, tagged linear_regression or lstm; when it ends in an
\* error response of validation, the fetch or the trend forecaster, no batch
\* was handed over.
C16_PersistenceMirrorsResponse == [][C16_Step]_vars

\* a success response with both models, three days each: six records handed over
C16_Witness ==
  /\ pc = "done" /\ IsForecast(response)
  /\ Len(response.body.models) = 2
  /\ "insert" \in calls
  /\ Len(recordsToInsert) = 6

\* window * sum(x^2) - (sum x)^2 for the sums s of a window of len prices
DenominatorOf(s, len) == JsSub(JsMul(N(len), s.sumX2), JsMul(s.sumX, s.sumX))
OlsDenominator(recentPrices) == DenominatorOf(LRSums(recentPrices), Len(recentPrices))
\* for every length the query can yield, 10..365: the window is
\* min(30, floor(n/3)), at least 3, and its denominator is not zero
EveryWindowFits ==
  /\ \A n \in 10..365 :
       /\ LRWindow(n) = (IF n \div 3 < 30 THEN n \div 3 ELSE 30)
       /\ LRWindow(n) >= 3
  /\ \A w \in {LRWindow(n) : n \in 10..365} :
       ~JsEq(OlsDenominator(ConstantSeries(w, N(0))), N(0))

\* C15: for n >= 10 the trend forecaster fits on exactly the last
\* min(30, floor(n/3)) prices, that window holds at least 3 prices, and the
\* denominator window * sum(x^2) - (sum x)^2 is not zero, so the slope is
\* never a division by zero.
C15_WindowNeverDegenerate ==
  /\ EveryWindowFits
  /\ (AppliedTrend /\ Len(unit.historicalPrices) >= 10) =>
       LET n == Len(unit.historicalPrices)
           w == IF n \div 3 < 30 THEN n \div 3 ELSE 30
           lastW == SubSeq(unit.historicalPrices, n - w + 1, n)
           fit == LRFit(lastW)
       IN  /\ w >= 3
           /\ ~unit.result.threw
           /\ ~JsEq(OlsDenominator(lastW), N(0))
           /\ IsFiniteNum(fit.slope)
           /\ unit.result.predictions =
                LRLoop(fit, w, unit.historicalPrices[n], unit.daysToPredict, unit.today)

\* ninety-one prices, the last of them varying: a window of 30, three predictions
C15_Witness ==
  /\ AppliedTrend /\ Len(unit.historicalPrices) = 91
  /\ ~IsConstant(unit.historicalPrices)
  /\ ~unit.result.threw /\ Len(unit.result.predictions) = 3

----------------------------------------------------------------------------
(* What SimpleLSTM promises, stated over a stepped run                      *)

Stepped == unit.fn = "SimpleLSTM"
\* the adjacent pairs of the data
PairCount == IF Len(unit.run.data) > 1 THEN Len(unit.run.data) - 1 ELSE 0
\* the update of the pair (x_p, x_p+1): the hidden state has been fed x_1..x_p
UpdateOfPair(p) ==
  [rate |-> Frac(1, 1000), x |-> unit.run.data[p], target |-> unit.run.data[p + 1],
   h |-> SubSeq(unit.run.data, 1, p)]
\* one update per pair and epoch, in order, for the first count of them
UpdatesUpTo(count) == [k \in 1..count |-> UpdateOfPair(((k - 1) % PairCount) + 1)]

\* C14: across train and a later predict the gate matrices Wf, Wi, Wc, Wo stay
\* as initialised; train changes outputWeights only, by one update of
\* learningRate * error * h per adjacent pair and epoch; predict changes no
\* weight.
C14_TrainChangesReadoutOnly ==
  Stepped =>
    /\ unit.lstm.cell = NewCell(unit.run.seed)
    /\ unit.lstm.outputWeights.draw = unit.run.seed
    /\ unit.at = "constructed" => unit.lstm.outputWeights.updates = <<>>
    /\ unit.at = "train" =>
         unit.lstm.outputWeights.updates = UpdatesUpTo(unit.epoch * PairCount + unit.i)
    /\ unit.at \in {"trained", "warmup", "predict", "predicted"} =>
         unit.lstm.outputWeights.updates = UpdatesUpTo(unit.run.epochs * PairCount)

\* two epochs over three data, then two predicted steps: four updates
C14_Witness ==
  /\ Stepped /\ unit.at = "predicted"
  /\ unit.run.epochs = 2 /\ Len(unit.run.data) = 3
  /\ Len(unit.lstm.outputWeights.updates) = 4
  /\ Len(unit.predictions) = 2

====
